---- MODULE Spec2Model ----
(***************************************************************************)
(* svc (schema version control): a model of MigrateSchema, the engine     *)
(* that applies versioned SQL scripts once, keeps its history in the      *)
(* tables schema_version and schema_script_sql, and refuses to run after  *)
(* a failed migration.                                                     *)
(*                                                                         *)
(* Strings of the program (file names, versions) are sequences of         *)
(* one-character strings, so that lower-casing, suffix tests and version  *)
(* parsing are computed and not assumed.                                   *)
(***************************************************************************)
EXTENDS Integers, Sequences, FiniteSets, TLC

(***************************************************************************)
(* Bounds of the model.                                                    *)
(***************************************************************************)
\* Invocations of MigrateSchema in one behaviour.
MaxRuns == 3
\* Changes of the script directory (a script added, a script amended) in one behaviour.
MaxFsChanges == 1

(***************************************************************************)
(* Strings.                                                                *)
(***************************************************************************)
UpperChars == <<"A","B","C","D","E","F","G","H","I","J","K","L","M",
                "N","O","P","Q","R","S","T","U","V","W","X","Y","Z">>

LowerChars == <<"a","b","c","d","e","f","g","h","i","j","k","l","m",
                "n","o","p","q","r","s","t","u","v","w","x","y","z">>

DigitChars == <<"0","1","2","3","4","5","6","7","8","9">>

\* The bytes the model's strings are made of, in byte order.
ByteOrder == <<".">> \o DigitChars \o UpperChars \o LowerChars

IndexOf(c, seq) ==
  IF \E i \in 1..Len(seq) : seq[i] = c
  THEN CHOOSE i \in 1..Len(seq) : seq[i] = c
  ELSE 0

DigitSet == {DigitChars[i] : i \in 1..Len(DigitChars)}

DigitValue == [c \in DigitSet |-> IndexOf(c, DigitChars) - 1]

IsDigit(c) == c \in DigitSet

UpperSet == {UpperChars[i] : i \in 1..Len(UpperChars)}

LowerOfUpper == [c \in UpperSet |-> LowerChars[IndexOf(c, UpperChars)]]

\* strings.ToLower
ToLowerChar(c) == IF c \in UpperSet THEN LowerOfUpper[c] ELSE c

ToLower(s) == [i \in 1..Len(s) |-> ToLowerChar(s[i])]

\* strings.HasSuffix
HasSuffix(s, suf) ==
  /\ Len(s) >= Len(suf)
  /\ SubSeq(s, Len(s) - Len(suf) + 1, Len(s)) = suf

HasPrefix(s, pre) ==
  /\ Len(s) >= Len(pre)
  /\ SubSeq(s, 1, Len(pre)) = pre

\* strings.Split(s, sep) for a one-character separator.
RECURSIVE SplitOn(_, _)
SplitOn(s, sep) ==
  IF \E i \in 1..Len(s) : s[i] = sep
  THEN LET i == CHOOSE j \in 1..Len(s) :
                  /\ s[j] = sep
                  /\ \A k \in 1..(j - 1) : s[k] # sep
       IN  <<SubSeq(s, 1, i - 1)>> \o SplitOn(SubSeq(s, i + 1, Len(s)), sep)
  ELSE <<s>>

\* Byte-wise comparison of two strings: -1, 0 or 1.
RECURSIVE StrCmp(_, _)
StrCmp(a, b) ==
  IF a = <<>> /\ b = <<>> THEN 0
  ELSE IF a = <<>> THEN -1
  ELSE IF b = <<>> THEN 1
  ELSE LET x == IndexOf(a[1], ByteOrder)
           y == IndexOf(b[1], ByteOrder)
       IN  IF x < y THEN -1
           ELSE IF x > y THEN 1
           ELSE StrCmp(Tail(a), Tail(b))

(***************************************************************************)
(* The version model (VerAfter, VerEq, VerAfterEq, PadVer).                *)
(***************************************************************************)
SqlSuffix == <<".","s","q","l">>

\* A script name without its decoration: the file extension and a leading 'v'.
StripVer(name) ==
  LET a == IF HasSuffix(name, SqlSuffix)
           THEN SubSeq(name, 1, Len(name) - Len(SqlSuffix))
           ELSE name
  IN  IF HasPrefix(a, <<"v">>) \/ HasPrefix(a, <<"V">>) THEN Tail(a) ELSE a

\* The components of a version, as strings.
VerParts(name) == SplitOn(StripVer(name), ".")

IsNumeric(part) == part # <<>> /\ \A i \in 1..Len(part) : IsDigit(part[i])

\* A component as an integer; a component that is no number counts as zero.
RECURSIVE ParseInt(_)
ParseInt(part) ==
  IF ~IsNumeric(part) THEN 0
  ELSE IF Len(part) = 1 THEN DigitValue[part[1]]
  ELSE ParseInt(SubSeq(part, 1, Len(part) - 1)) * 10 + DigitValue[part[Len(part)]]

\* The zeros are put in front.
PadVerLeft(v, n) ==
  IF Len(v) >= n THEN v
  ELSE [i \in 1..(n - Len(v)) |-> <<"0">>] \o v

\* PadVer(v, n): v right-padded with "0" components to n components.
PadVer(v, n) ==
  IF Len(v) >= n THEN v
  ELSE v \o [i \in 1..(n - Len(v)) |-> <<"0">>]

Max(a, b) == IF a >= b THEN a ELSE b

RECURSIVE CmpParts(_, _)
CmpParts(p, q) ==
  IF p = <<>> THEN 0
  ELSE LET x == ParseInt(p[1])
           y == ParseInt(q[1])
       IN  IF x < y THEN -1
           ELSE IF x > y THEN 1
           ELSE CmpParts(Tail(p), Tail(q))

HasNumericPart(parts) == \E i \in 1..Len(parts) : IsNumeric(parts[i])

\* The component lists are compared without padding the shorter one.
VerCmpUnpadded(a, b) ==
  LET p == VerParts(a)
      q == VerParts(b)
      n == IF Len(p) <= Len(q) THEN Len(p) ELSE Len(q)
  IN  IF HasNumericPart(p) /\ HasNumericPart(q)
      THEN CmpParts(SubSeq(p, 1, n), SubSeq(q, 1, n))
      ELSE StrCmp(a, b)

\* compareVersions(a, b): -1 (Before), 0 (Equal), 1 (After).
VerCmp(a, b) ==
  LET p == VerParts(a)
      q == VerParts(b)
      n == Max(Len(p), Len(q))
  IN  IF HasNumericPart(p) /\ HasNumericPart(q)
      THEN CmpParts(PadVer(p, n), PadVer(q, n))
      ELSE StrCmp(a, b)

VerAfter(a, b) == VerCmp(a, b) = 1

VerEq(a, b) == VerCmp(a, b) = 0

VerAfterEq(a, b) == VerCmp(a, b) >= 0

(***************************************************************************)
(* The script directory, the database and the callers.                     *)
(***************************************************************************)
V001 == <<"v","0",".","0",".","1",".","s","q","l">>

V002 == <<"v","0",".","0",".","2",".","s","q","l">>

V003 == <<"v","0",".","0",".","3",".","s","q","l">>

\* The script files a directory may hold.
FileNames == {V001, V002, V003}

\* Directory entries that are no scripts: a text file and a sub-directory.
ReadmeEntry == [name |-> <<"R","E","A","D","M","E",".","m","d">>, regular |-> TRUE]

SubDirEntry == [name |-> <<"o","l","d",".","s","q","l">>, regular |-> FALSE]

\* No such file in the directory (an empty file has one empty segment).
NoFile == <<>>

\* A file's content is its text split on ";": the segments as written, of
\* which Blank is a segment of white space only (the text after the last ";").
Blank == " "

BaseContent(f) ==
  IF f = V002 THEN {<<"A", "B", "C", Blank>>}
  ELSE IF f = V003 THEN {<<"A", Blank>>, <<Blank>>}
  ELSE {<<"A", Blank>>}

\* The statements a developer appends to a script between two runs.
Amendments == {<<"D", "E">>, <<"A">>}

\* c.StartingVersion: empty, or a version.
StartingVersions == {<<>>, <<"v","0",".","0",".","2">>}

Apps == {"test"}

OtherApp == "other"

Procs == {"p1", "p2"}

\* The text of a driver error, with its length in runes.
DriverErrors == {[text |-> <<"Error 1406: data too long ...">>, len |-> 300]}

SchemaVersionTable == "schema_version"

SchemaScriptSqlTable == "schema_script_sql"

VARIABLES
  tables,             \* the tables that exist in the database
  schema_version,     \* rows of schema_version, in id order
  schema_script_sql,  \* rows of schema_script_sql, in id order
  files,              \* the script directory: file name -> content
  excluded,           \* the package variable excluded
  proc,               \* each caller's invocation of MigrateSchema
  execLog,            \* every migration statement handed to the database
  runs,               \* invocations started
  fsChanges,          \* changes made to the script directory
  failPending         \* the apps with a failed statement nobody resolved since

vars == <<tables, schema_version, schema_script_sql, files, excluded, proc,
          execLog, runs, fsChanges, failPending>>

NoRet == [kind |-> "none"]

NilRet == [kind |-> "nil"]

NoSave == [script |-> <<>>, success |-> FALSE, remark |-> [text |-> <<>>, len |-> 0],
           id |-> 0, then |-> "none"]

NoPrior == [kind |-> "none"]

\* What the caller passes besides App and StartingVersion: whether c.Fs, log
\* and db are nil.
Configs == [fsNil : BOOLEAN, logNil : BOOLEAN, dbNil : BOOLEAN]

ValidConfig == [fsNil |-> FALSE, logNil |-> FALSE, dbNil |-> FALSE]

IdleProc ==
  [pc |-> "idle", run |-> 0, app |-> "", cfg |-> ValidConfig, sv |-> <<>>,
   firstRun |-> FALSE, fault |-> "none",
   last |-> <<>>, read |-> {}, unreadable |-> {}, schemaFiles |-> <<>>, i |-> 0, fname |-> <<>>,
   segments |-> <<>>, k |-> 0, save |-> NoSave, ret |-> NoRet,
   sv0 |-> <<>>, ss0 |-> <<>>, x0 |-> 0, t0 |-> {}, fp0 |-> FALSE,
   prior |-> NoPrior]

Quiescent == \A p \in Procs : proc[p].pc \in {"idle", "done"}

\* What a finished invocation leaves behind once the world moves on.
Settled == [p \in Procs |-> IdleProc]

InitialDirs ==
  {d \in [FileNames -> (UNION {BaseContent(f) : f \in FileNames}) \cup {NoFile}] :
     \A f \in FileNames : d[f] = NoFile \/ d[f] \in BaseContent(f)}

\* The database a run may meet: nothing yet, or the tables as another
\* application's earlier run left them.
InitialDbs ==
  {[tables |-> {}, rows |-> <<>>],
   [tables |-> {SchemaVersionTable, SchemaScriptSqlTable},
    rows |-> <<[id |-> 1, app |-> OtherApp, script |-> V003, success |-> FALSE,
                remark |-> [text |-> <<"Error 1064: syntax error">>, len |-> 24]]>>]}

Init ==
  /\ \E db \in InitialDbs :
       /\ tables = db.tables
       /\ schema_version = db.rows
  /\ schema_script_sql = <<>>
  /\ files \in InitialDirs
  /\ excluded = {}
  /\ proc = [p \in Procs |-> IdleProc]
  /\ execLog = <<>>
  /\ runs = 0
  /\ fsChanges = 0
  /\ failPending = {}

(***************************************************************************)
(* Script discovery: convertSchemaFiles, sortSchemaFile, isExcluded.       *)
(***************************************************************************)
\* isExcluded(name): the name, lower-cased, is a key of excluded.
isExcluded(name, excl) == ToLower(name) \in excl

\* strings.TrimSpace of one segment.
TrimSpace(seg) == IF seg = Blank THEN "" ELSE seg

\* The statements of a file: its segments trimmed, the empty ones dropped.
SplitSQLs(content) ==
  LET trimmed == [i \in 1..Len(content) |-> TrimSpace(content[i])]
      NotEmpty(seg) == seg # ""
  IN  SelectSeq(trimmed, NotEmpty)

\* fs.ReadFile(baseDir + "/" + name).
ReadFile(dir, name) ==
  IF name \in DOMAIN dir /\ dir[name] # NoFile
  THEN [err |-> FALSE, content |-> dir[name]]
  ELSE [err |-> TRUE, content |-> <<>>]

\* No file is dropped for its version.
KeepsVersionAlways(name, last) == TRUE

\* The baseline test of convertSchemaFiles: a file before last is dropped.
KeepsVersion(name, last) == last = <<>> \/ VerAfterEq(name, last)

\* The file name was read: it is put before the files kept after it unless
\* it holds no statement or a later read failed.
Kept(name, sqls, rest) ==
  IF Len(sqls) < 1 \/ rest.err
  THEN [rest EXCEPT !.read = {name} \cup @]
  ELSE [err |-> FALSE, path |-> <<>>,
        files |-> <<[Name |-> name, SQLs |-> sqls]>> \o rest.files,
        read  |-> {name} \cup rest.read]

\* convertSchemaFiles(last, files, baseDir, fs): the scripts kept, or the path
\* whose read failed; read is the set of paths handed to fs.ReadFile.
RECURSIVE convertSchemaFiles(_, _, _, _)
convertSchemaFiles(last, listing, dir, excl) ==
  IF listing = <<>> THEN [err |-> FALSE, path |-> <<>>, files |-> <<>>, read |-> {}]
  ELSE
    LET f    == Head(listing)
        name == ToLower(f.name)
        rest == convertSchemaFiles(last, Tail(listing), dir, excl)
        buf  == ReadFile(dir, name)
        sqls == SplitSQLs(buf.content)
    IN  IF ~f.regular THEN rest
        ELSE IF ~HasSuffix(name, SqlSuffix) THEN rest
        ELSE IF isExcluded(name, excl) THEN rest
        ELSE IF ~KeepsVersion(name, last) THEN rest
        ELSE IF buf.err
        THEN [err |-> TRUE, path |-> name, files |-> <<>>, read |-> {name}]
        ELSE Kept(name, sqls, rest)

\* The less function of sortSchemaFile: VerAfter(fj.Name, fi.Name).
SchemaFileLess(fi, fj) == VerAfter(fj.Name, fi.Name)

RECURSIVE InsertSorted(_, _)
InsertSorted(x, sorted) ==
  IF sorted = <<>> THEN <<x>>
  ELSE IF SchemaFileLess(x, Head(sorted)) THEN <<x>> \o sorted
  ELSE <<Head(sorted)>> \o InsertSorted(x, Tail(sorted))

RECURSIVE SortBy(_)
SortBy(entries) ==
  IF entries = <<>> THEN <<>>
  ELSE InsertSorted(entries[Len(entries)], SortBy(SubSeq(entries, 1, Len(entries) - 1)))

\* The scripts are left in the order of the directory listing.
sortSchemaFileSkipped(entries) == entries

\* sortSchemaFile(entries): ascending by version.
sortSchemaFile(entries) == SortBy(entries)

\* The orders in which fs.ReadDir may list the directory.
Orderings(S) ==
  {s \in [1..Cardinality(S) -> S] : \A i, j \in 1..Cardinality(S) : s[i] = s[j] => i = j}

Listings(dir) ==
  LET present == {f \in FileNames : dir[f] # NoFile}
  IN  {<<SubDirEntry>> \o [i \in 1..Len(s) |-> [name |-> s[i], regular |-> TRUE]]
         \o <<ReadmeEntry>> : s \in Orderings(present)}

(***************************************************************************)
(* The history tables.                                                     *)
(***************************************************************************)
NoRow == [id |-> 0, app |-> "", script |-> <<>>, success |-> FALSE,
          remark |-> [text |-> <<>>, len |-> 0]]

RowIds(rows, app) == {i \in 1..Len(rows) : rows[i].app = app}

\* SELECT id, script, success, remark FROM schema_version WHERE app = ?
\* ORDER BY id DESC LIMIT 1, as (RowsAffected, row).
QueryLastVer(rows, app) ==
  LET ids == RowIds(rows, app)
  IN  IF ids = {} THEN [n |-> 0, row |-> NoRow]
      ELSE [n |-> 1, row |-> rows[CHOOSE i \in ids : \A j \in ids : j <= i]]

PreviousFailedIgnored(q) == FALSE

\* The gate of MigrateSchema: the latest record is one of a failed run.
PreviousFailed(q) == q.n >= 1 /\ ~q.row.success

\* StartingVersion is taken whenever it is given.
ResolveLastStartingVersionFirst(sv, hasLastVer, lastScript) ==
  IF sv # <<>> THEN sv ELSE IF hasLastVer THEN lastScript ELSE sv

\* The baseline: StartingVersion, or the script of lastVer when that is later.
\* lastVer is nil when the query found no row; on a first run the query is
\* skipped and lastVer stays the zero value of its type.
ResolveLast(sv, hasLastVer, lastScript) ==
  IF hasLastVer
  THEN IF sv # <<>>
       THEN IF VerAfter(lastScript, sv) THEN lastScript ELSE sv
       ELSE lastScript
  ELSE sv

\* The statements of the script are looked up whatever the app.
QueryExecutedAnyApp(rows, app, script) ==
  {rows[i].sql_script : i \in {j \in 1..Len(rows) : rows[j].script = script}}

\* SELECT sql_script FROM schema_script_sql WHERE app = ? and script = ?
QueryExecuted(rows, app, script) ==
  {rows[i].sql_script : i \in {j \in 1..Len(rows) : rows[j].app = app /\ rows[j].script = script}}

\* As many leading statements are dropped as there are recorded texts.
FilterExecutedByCount(sqls, executed) ==
  SubSeq(sqls, Cardinality(executed) + 1, Len(sqls))

\* The last script is handed over whole, whatever was recorded for it.
FilterExecutedNone(sqls, executed) == sqls

\* The statements of the last script that no Statement Record names.
FilterExecuted(sqls, executed) ==
  LET IsNew(s) == s \notin executed
  IN  SelectSeq(sqls, IsNew)

RemarkLimit == 255

\* The remark is cut one rune later.
TruncateRemarkLate(remark) ==
  IF remark.len > RemarkLimit + 1
  THEN [text |-> <<"first 256 runes of">> \o remark.text, len |-> RemarkLimit + 1]
  ELSE remark

\* rrm[:255] of saveSchemaVer.
TruncateRemark(remark) ==
  IF remark.len > RemarkLimit
  THEN [text |-> <<"first 255 runes of">> \o remark.text, len |-> RemarkLimit]
  ELSE remark

ExecutedRemark == [text |-> <<"Executed">>, len |-> 8]

InitializedRemark(name) ==
  [text |-> <<"Initialized at version ">> \o name, len |-> 23 + Len(name)]

(***************************************************************************)
(* MigrateSchema, one database operation at a time.                        *)
(***************************************************************************)
Set(p, r) == proc' = [proc EXCEPT ![p] = r]

\* The probe is taken to succeed whether or not the table is there.
ProbeNeverFails(tbls) == FALSE

\* SELECT id FROM schema_version LIMIT 1 fails: the table is not there.
ProbeFails(tbls) == SchemaVersionTable \notin tbls

\* The caller calls MigrateSchema(db, log, c): the configuration is checked
\* and the probe for schema_version decides firstRun.
Start(p, app, sv) ==
  /\ proc[p].pc \in {"idle", "done"}
  /\ runs < MaxRuns
  /\ runs' = runs + 1
  /\ Set(p, [IdleProc EXCEPT
               !.pc = "create", !.run = runs + 1, !.app = app, !.sv = sv,
               !.firstRun = ProbeFails(tables),
               !.sv0 = schema_version, !.ss0 = schema_script_sql,
               !.x0 = Len(execLog), !.t0 = tables,
               !.fp0 = app \in failPending,
               !.prior = IF proc[p].pc = "done"
                         THEN [kind |-> "run", ret |-> proc[p].ret,
                               sv |-> proc[p].sv, app |-> proc[p].app,
                               firstRun |-> proc[p].firstRun]
                         ELSE NoPrior])
  /\ UNCHANGED <<tables, schema_version, schema_script_sql, files, excluded,
                 execLog, fsChanges, failPending>>

\* The error of the nil checks of MigrateSchema: c.Fs, then log, then db.
ConfigError(cfg) ==
  [kind |-> "config_error",
   text |-> IF cfg.fsNil THEN "fs is nil"
            ELSE IF cfg.logNil THEN "log is nil"
            ELSE "db is nil"]

PanicRet == [kind |-> "panic"]

\* The deferred log.Infof("Migrate schema took %v") of MigrateSchema runs as
\* the function returns: on a nil log the call panics and the caller gets no
\* return value.
Deferred(cfg, ret) == IF cfg.logNil THEN PanicRet ELSE ret

\* The caller calls MigrateSchema with c.Fs, log or db nil: the nil checks
\* return before the first database operation, and the deferred call runs.
Reject(p, app, sv, cfg) ==
  /\ proc[p].pc \in {"idle", "done"}
  /\ runs < MaxRuns
  /\ cfg # ValidConfig
  /\ runs' = runs + 1
  /\ Set(p, [IdleProc EXCEPT
               !.pc = "done", !.run = runs + 1, !.app = app, !.sv = sv,
               !.cfg = cfg,
               !.ret = Deferred(cfg, ConfigError(cfg)),
               !.sv0 = schema_version, !.ss0 = schema_script_sql,
               !.x0 = Len(execLog), !.t0 = tables,
               !.fp0 = app \in failPending])
  /\ UNCHANGED <<tables, schema_version, schema_script_sql, files, excluded,
                 execLog, fsChanges, failPending>>

PreviousFailedError(row) ==
  [kind |-> "previous_failed", script |-> row.script, remark |-> row.remark,
   id |-> row.id]

\* CREATE TABLE t: an error when the table is there.
CreateTable(tbls, t) == [err |-> t \in tbls, tables |-> tbls \cup {t}]

\* CREATE TABLE IF NOT EXISTS t.
CreateTableIfNotExists(tbls, t) == [err |-> FALSE, tables |-> tbls \cup {t}]

CreateFailedError(t) == [kind |-> "create_failed", table |-> t]

\* CREATE TABLE IF NOT EXISTS schema_version, schema_script_sql; then, unless
\* this is the first run, the latest record of the app is read and the gate
\* applied; then the baseline is chosen.
Prepare(p) ==
  /\ proc[p].pc = "create"
  /\ LET pr == proc[p]
         c1 == CreateTableIfNotExists(tables, SchemaVersionTable)
         c2 == CreateTableIfNotExists(c1.tables, SchemaScriptSqlTable)
         q  == QueryLastVer(schema_version, pr.app)
     IN  IF c1.err
         THEN /\ tables' = tables
              /\ Set(p, [pr EXCEPT !.pc = "done",
                                   !.ret = CreateFailedError(SchemaVersionTable)])
         ELSE IF c2.err
         THEN /\ tables' = c1.tables
              /\ Set(p, [pr EXCEPT !.pc = "done",
                                   !.ret = CreateFailedError(SchemaScriptSqlTable)])
         ELSE /\ tables' = c2.tables
              /\ IF ~pr.firstRun /\ PreviousFailed(q)
                 THEN Set(p, [pr EXCEPT !.pc = "done",
                                        !.ret = PreviousFailedError(q.row)])
                 ELSE Set(p, [pr EXCEPT
                                !.pc = "discover",
                                !.last = IF pr.firstRun
                                         THEN ResolveLast(pr.sv, TRUE, NoRow.script)
                                         ELSE ResolveLast(pr.sv, q.n >= 1, q.row.script)])
  /\ UNCHANGED <<schema_version, schema_script_sql, files, excluded,
                 execLog, runs, fsChanges, failPending>>

\* The ways c.Fs.ReadDir(c.BaseDir) fails: the directory is not there, or
\* anything else.
ReadDirErrors == {"not_exist", "io_error"}

ReadDirErrorAlwaysReturned(err) == [kind |-> "readdir_failed", err |-> err]

\* What MigrateSchema returns when ReadDir fails: nil when os.IsNotExist(err).
ReadDirError(err) ==
  IF err = "not_exist" THEN NilRet ELSE [kind |-> "readdir_failed", err |-> err]

\* c.Fs.ReadDir(c.BaseDir) returns an error.
ReadDirFails(p, err) ==
  /\ proc[p].pc = "discover"
  /\ Set(p, [proc[p] EXCEPT !.pc = "done", !.fault = err, !.ret = ReadDirError(err)])
  /\ UNCHANGED <<tables, schema_version, schema_script_sql, files, excluded,
                 execLog, runs, fsChanges, failPending>>

\* The error names no path.
ReadFailedErrorUnnamed(path) == [kind |-> "read_failed", path |-> <<>>]

\* The error of convertSchemaFiles: "failed to fs.ReadFile, <path>, <err>".
ReadFailedError(path) == [kind |-> "read_failed", path |-> path]

\* The first run is treated like any other run.
IsShortcutNever(firstRun, schemaFiles) == FALSE

\* The first run records the last script and executes nothing.
IsShortcut(firstRun, schemaFiles) == firstRun /\ Len(schemaFiles) > 0

\* The files of the directory that fs.ReadFile cannot read from dir.
Unreadable(stored, dir) ==
  {f \in DOMAIN stored : stored[f] # NoFile /\ ReadFile(dir, f).err}

\* c.Fs.ReadDir, convertSchemaFiles, sortSchemaFile.
DiscoverIn(p, listing, dir) ==
  /\ proc[p].pc = "discover"
  /\ LET conv   == convertSchemaFiles(proc[p].last, listing, dir, excluded)
         pr     == [proc[p] EXCEPT !.read = conv.read,
                                   !.unreadable = Unreadable(files, dir)]
         sorted == sortSchemaFile(conv.files)
     IN  IF conv.err
         THEN Set(p, [pr EXCEPT !.pc = "done", !.ret = ReadFailedError(conv.path)])
         ELSE IF IsShortcut(pr.firstRun, sorted)
         THEN Set(p, [pr EXCEPT
                        !.pc = "save_select",
                        !.schemaFiles = sorted,
                        !.save = [script  |-> sorted[Len(sorted)].Name,
                                  success |-> TRUE,
                                  remark  |-> InitializedRemark(sorted[Len(sorted)].Name),
                                  id |-> 0, then |-> "init"]])
         ELSE Set(p, [pr EXCEPT !.pc = "loop", !.schemaFiles = sorted, !.i = 1])
  /\ UNCHANGED <<tables, schema_version, schema_script_sql, files, excluded,
                 execLog, runs, fsChanges, failPending>>

\* The directory holds its files under lower-case names.
Discover(p) == \E listing \in Listings(files) : DiscoverIn(p, listing, files)

\* Every candidate script is run whole.
SelectedAll(sf, isLast, executed, last) == [skip |-> FALSE, sqls |-> sf.SQLs]

\* The last script is run whole when it has no Statement Record, whatever
\* its version.
SelectedLastUnskipped(sf, isLast, executed, last) ==
  IF isLast
  THEN IF executed # {}
       THEN [skip |-> FALSE, sqls |-> FilterExecuted(sf.SQLs, executed)]
       ELSE [skip |-> FALSE, sqls |-> sf.SQLs]
  ELSE IF VerEq(sf.Name, last)
  THEN [skip |-> TRUE, sqls |-> <<>>]
  ELSE [skip |-> FALSE, sqls |-> sf.SQLs]

\* What the loop of MigrateSchema does with schemaFiles[i]: the statements to
\* run, or skip.
Selected(sf, isLast, executed, last) ==
  IF isLast
  THEN IF executed # {}
       THEN [skip |-> FALSE, sqls |-> FilterExecuted(sf.SQLs, executed)]
       ELSE IF VerEq(sf.Name, last)
       THEN [skip |-> TRUE, sqls |-> <<>>]
       ELSE [skip |-> FALSE, sqls |-> sf.SQLs]
  ELSE IF VerEq(sf.Name, last)
  THEN [skip |-> TRUE, sqls |-> <<>>]
  ELSE [skip |-> FALSE, sqls |-> sf.SQLs]

\* The head of the loop over schemaFiles.
Loop(p) ==
  /\ proc[p].pc = "loop"
  /\ LET pr == proc[p]
     IN  IF pr.i > Len(pr.schemaFiles)
         THEN Set(p, [pr EXCEPT !.pc = "done", !.ret = NilRet])
         ELSE LET sf  == pr.schemaFiles[pr.i]
                  sel == Selected(sf, pr.i = Len(pr.schemaFiles),
                                  QueryExecuted(schema_script_sql, pr.app, sf.Name),
                                  pr.last)
              IN  IF sel.skip
                  THEN Set(p, [pr EXCEPT !.i = pr.i + 1])
                  ELSE Set(p, [pr EXCEPT !.pc = "stmt", !.fname = sf.Name,
                                         !.segments = sel.sqls, !.k = 1])
  /\ UNCHANGED <<tables, schema_version, schema_script_sql, files, excluded,
                 execLog, runs, fsChanges, failPending>>

\* runSQLFile: the next statement is recorded in schema_script_sql, or, after
\* the last one, the script is saved as successful.
Stmt(p) ==
  /\ proc[p].pc = "stmt"
  /\ LET pr == proc[p]
     IN  IF pr.k > Len(pr.segments)
         THEN /\ Set(p, [pr EXCEPT
                           !.pc = "save_select",
                           !.save = [script |-> pr.fname, success |-> TRUE,
                                     remark |-> ExecutedRemark,
                                     id |-> 0, then |-> "ok"]])
              /\ UNCHANGED schema_script_sql
         ELSE /\ schema_script_sql' =
                   Append(schema_script_sql,
                          [app |-> pr.app, script |-> pr.fname,
                           sql_script |-> pr.segments[pr.k]])
              /\ Set(p, [pr EXCEPT !.pc = "exec"])
  /\ UNCHANGED <<tables, schema_version, files, excluded,
                 execLog, runs, fsChanges, failPending>>

LogEntry(pr, ok) ==
  [run |-> pr.run, app |-> pr.app, script |-> pr.fname,
   sql |-> pr.segments[pr.k], ok |-> ok]

\* db.Exec(sql) succeeds.
ExecOk(p) ==
  /\ proc[p].pc = "exec"
  /\ execLog' = Append(execLog, LogEntry(proc[p], TRUE))
  /\ Set(p, [proc[p] EXCEPT !.pc = "stmt", !.k = proc[p].k + 1])
  /\ UNCHANGED <<tables, schema_version, schema_script_sql, files, excluded,
                 runs, fsChanges, failPending>>

ExecFailedError(script, sql, err) ==
  [kind |-> "exec_failed", script |-> script, sql |-> sql, err |-> err.text]

\* The script is saved as executed although its statement failed.
OnExecErrorSavedExecuted(pr, err) ==
  [pr EXCEPT !.pc = "save_select",
             !.ret = ExecFailedError(pr.fname, pr.segments[pr.k], err),
             !.save = [script |-> pr.fname, success |-> TRUE,
                       remark |-> ExecutedRemark, id |-> 0, then |-> "fail"]]

\* The error is dropped and the next statement is taken up.
OnExecErrorContinue(pr, err) == [pr EXCEPT !.pc = "stmt", !.k = pr.k + 1]

\* The error is returned and the failed record never saved.
OnExecErrorUnsaved(pr, err) ==
  [pr EXCEPT !.pc = "done",
             !.ret = ExecFailedError(pr.fname, pr.segments[pr.k], err)]

\* What runSQLFile does when db.Exec(sql) returned err.
OnExecError(pr, err) ==
  [pr EXCEPT !.pc = "save_select",
             !.ret = ExecFailedError(pr.fname, pr.segments[pr.k], err),
             !.save = [script |-> pr.fname, success |-> FALSE, remark |-> err,
                       id |-> 0, then |-> "fail"]]

\* db.Exec(sql) fails with one of the errors errs.
ExecFailWith(p, errs) ==
  /\ proc[p].pc = "exec"
  /\ \E err \in errs :
       Set(p, OnExecError(proc[p], err))
  /\ execLog' = Append(execLog, LogEntry(proc[p], FALSE))
  /\ failPending' = failPending \cup {proc[p].app}
  /\ UNCHANGED <<tables, schema_version, schema_script_sql, files, excluded,
                 runs, fsChanges>>

\* db.Exec(sql) fails.
ExecFail(p) == ExecFailWith(p, DriverErrors)

\* saveSchemaVer: SELECT id FROM schema_version WHERE app = ? and script = ? LIMIT 1
SaveSelect(p) ==
  /\ proc[p].pc = "save_select"
  /\ LET pr  == proc[p]
         ids == {i \in RowIds(schema_version, pr.app) :
                   schema_version[i].script = pr.save.script}
     IN  IF ids = {}
         THEN Set(p, [pr EXCEPT !.pc = "save_write", !.save.id = 0])
         ELSE \E id \in ids : Set(p, [pr EXCEPT !.pc = "save_write", !.save.id = id])
  /\ UNCHANGED <<tables, schema_version, schema_script_sql, files, excluded,
                 execLog, runs, fsChanges, failPending>>

\* A row is inserted whether or not one exists.
SavedRowsInserted(rows, app, save) ==
  Append(rows, [id |-> Len(rows) + 1, app |-> app, script |-> save.script,
                success |-> save.success,
                remark |-> TruncateRemark(save.remark)])

\* saveSchemaVer: UPDATE the row found, or INSERT a new one.
SavedRows(rows, app, save) ==
  IF save.id > 0
  THEN [rows EXCEPT ![save.id].success = save.success,
                    ![save.id].remark = TruncateRemark(save.remark)]
  ELSE Append(rows, [id |-> Len(rows) + 1, app |-> app, script |-> save.script,
                     success |-> save.success,
                     remark |-> TruncateRemark(save.remark)])

SaveWrite(p) ==
  /\ proc[p].pc = "save_write"
  /\ schema_version' = SavedRows(schema_version, proc[p].app, proc[p].save)
  /\ LET pr == proc[p]
     IN  IF pr.save.then = "init"
         THEN Set(p, [pr EXCEPT !.pc = "done", !.ret = NilRet])
         ELSE IF pr.save.then = "fail"
         THEN Set(p, [pr EXCEPT !.pc = "done"])
         ELSE Set(p, [pr EXCEPT !.pc = "loop", !.i = pr.i + 1])
  /\ UNCHANGED <<tables, schema_script_sql, files, excluded,
                 execLog, runs, fsChanges, failPending>>

\* The History Record of the app with the greatest id among rows, if any.
HasRecord(rows, app) == \E i \in 1..Len(rows) : rows[i].app = app

LatestRecord(rows, app) ==
  rows[CHOOSE i \in 1..Len(rows) :
         /\ rows[i].app = app
         /\ \A j \in 1..Len(rows) : rows[j].app = app => rows[j].id <= rows[i].id]

LatestFailed(rows, app) ==
  HasRecord(rows, app) /\ LatestRecord(rows, app).success = FALSE

(***************************************************************************)
(* Between invocations: the operator and the developers.                   *)
(***************************************************************************)
\* UPDATE schema_version SET success=1 WHERE id = ?, on the failed record
\* the error message names.
Resolve(app) ==
  /\ Quiescent
  /\ runs < MaxRuns
  /\ LatestFailed(schema_version, app)
  /\ schema_version' =
       [schema_version EXCEPT ![LatestRecord(schema_version, app).id].success = TRUE]
  /\ failPending' = failPending \ {app}
  /\ proc' = Settled
  /\ UNCHANGED <<tables, schema_script_sql, files, excluded, execLog, runs, fsChanges>>

\* A new script file appears in the directory.
AddScript(f) ==
  /\ Quiescent
  /\ runs < MaxRuns
  /\ fsChanges < MaxFsChanges
  /\ files[f] = NoFile
  /\ \E c \in BaseContent(f) : files' = [files EXCEPT ![f] = c]
  /\ fsChanges' = fsChanges + 1
  /\ proc' = Settled
  /\ UNCHANGED <<tables, schema_version, schema_script_sql, excluded, execLog,
                 runs, failPending>>

\* Statements are appended to a script file.
Amended(content, new) == SubSeq(content, 1, Len(content) - 1) \o new \o <<Blank>>

AmendScript(f, new) ==
  /\ Quiescent
  /\ runs < MaxRuns
  /\ fsChanges < MaxFsChanges
  /\ files[f] # NoFile
  /\ files' = [files EXCEPT ![f] = Amended(files[f], new)]
  /\ fsChanges' = fsChanges + 1
  /\ proc' = Settled
  /\ UNCHANGED <<tables, schema_version, schema_script_sql, excluded, execLog,
                 runs, failPending>>

\* The names the application hands to ExcludeFile.
ExcludeNames == {V003}

\* ExcludeFile(name)
ExcludeFile(name) ==
  /\ Quiescent
  /\ runs < MaxRuns
  /\ name \notin excluded
  /\ excluded' = excluded \cup {name}
  /\ proc' = Settled
  /\ UNCHANGED <<tables, schema_version, schema_script_sql, files, execLog,
                 runs, fsChanges, failPending>>

MigrateSchema(p) ==
  \/ \E app \in Apps, sv \in StartingVersions : Start(p, app, sv)
  \/ Prepare(p)
  \/ Discover(p)
  \/ Loop(p)
  \/ Stmt(p)
  \/ ExecOk(p)
  \/ ExecFail(p)
  \/ SaveSelect(p)
  \/ SaveWrite(p)

Environment ==
  \/ \E app \in Apps : Resolve(app)
  \/ \E f \in FileNames : AddScript(f)
  \/ \E f \in FileNames, new \in Amendments : AmendScript(f, new)
  \/ \E name \in ExcludeNames : ExcludeFile(name)

\* One caller at a time (the engine assumes one writer).
Next == MigrateSchema("p1") \/ Environment

Spec == Init /\ [][Next]_vars

(***************************************************************************)
(* Vocabulary of the properties.                                           *)
(***************************************************************************)
\* The log entries of one invocation.
RunEntries(run) == SelectSeq(execLog, LAMBDA e : e.run = run)

\* The script files present in the directory.
Present == {f \in FileNames : files[f] # NoFile}

(***************************************************************************)
(* C1. Prior-failure gate: when the History Record with the greatest id    *)
(* of the app has success = false as MigrateSchema starts, the invocation  *)
(* goes no further than the gate: it returns the error that names the      *)
(* script, the remark and the id of that record, hands no migration        *)
(* statement to the database and writes neither table, whatever scripts    *)
(* the directory holds and whatever StartingVersion is.                    *)
(***************************************************************************)
C1_PriorFailureGate ==
  \A p \in Procs :
    LET pr == proc[p]
    IN  (pr.pc # "idle" /\ LatestFailed(pr.sv0, pr.app)) =>
          /\ pr.pc \in {"create", "done"}
          /\ schema_version = pr.sv0
          /\ schema_script_sql = pr.ss0
          /\ Len(execLog) = pr.x0
          /\ pr.pc = "done" =>
               /\ pr.ret.kind = "previous_failed"
               /\ pr.ret.script = LatestRecord(pr.sv0, pr.app).script
               /\ pr.ret.remark = LatestRecord(pr.sv0, pr.app).remark
               /\ pr.ret.id = LatestRecord(pr.sv0, pr.app).id

\* The gate closes on a run with a StartingVersion and scripts after the failed one.
C1_Witness ==
  \E p \in Procs :
    /\ proc[p].pc = "done"
    /\ proc[p].ret.kind = "previous_failed"
    /\ proc[p].sv # <<>>
    /\ \E f \in Present :
         /\ SplitSQLs(files[f]) # <<>>
         /\ VerAfter(f, proc[p].ret.script)

\* The script of the app's most recent failed statement.
LastFailedScript(app) ==
  LET failed == SelectSeq(execLog, LAMBDA e : e.app = app /\ ~e.ok)
  IN  failed[Len(failed)].script

(***************************************************************************)
(* C2. Failure leads to the gate: once a statement has failed, and until   *)
(* somebody changes the history table, the failed record of the failing    *)
(* script is the latest record of the app whenever no invocation is under  *)
(* way, and every later invocation stops at the gate: it returns the       *)
(* prior-failure error and hands no statement to the database.             *)
(***************************************************************************)
C2_FailureLeadsToGate ==
  /\ Quiescent =>
       \A app \in failPending :
         /\ LatestFailed(schema_version, app)
         /\ LatestRecord(schema_version, app).script = LastFailedScript(app)
  /\ \A p \in Procs :
       LET pr == proc[p]
       IN  (pr.pc # "idle" /\ pr.fp0) =>
             /\ pr.pc \in {"create", "done"}
             /\ Len(execLog) = pr.x0
             /\ pr.pc = "done" => pr.ret.kind = "previous_failed"

\* A script that ran before fails on a later run (its record is updated, not
\* inserted), and the run after that one stops at the gate.
C2_Witness ==
  \E p \in Procs :
    /\ proc[p].pc = "done"
    /\ proc[p].fp0
    /\ proc[p].ret.kind = "previous_failed"
    /\ \E i, j \in 1..Len(execLog) :
         /\ execLog[i].run < execLog[j].run
         /\ execLog[i].script = execLog[j].script
         /\ execLog[i].ok
         /\ ~execLog[j].ok

\* How often statement t has been handed to the database for script f of app.
TimesExecuted(app, f, t) ==
  Len(SelectSeq(execLog, LAMBDA e : e.app = app /\ e.script = f /\ e.sql = t))

\* How often the file of script f holds statement t.
TimesInFile(f, t) ==
  Len(SelectSeq(SplitSQLs(files[f]), LAMBDA s : s = t))

(***************************************************************************)
(* C3. At most once: while the script files are the ones the first         *)
(* invocation met (no file added, no file amended), whatever the           *)
(* StartingVersion of each run, whatever is excluded and whichever failed  *)
(* records are resolved in between, the statements handed to the database  *)
(* for a script never outnumber the statements of its file: a statement    *)
(* text is handed over at most as often as the file holds it.              *)
(***************************************************************************)
C3_AtMostOnce ==
  fsChanges = 0 =>
    \A i \in 1..Len(execLog) :
      LET e == execLog[i]
      IN  TimesExecuted(e.app, e.script, e.sql) <= TimesInFile(e.script, e.sql)

\* A script stopped by a failing statement is resumed by a later run, after
\* the failed record was resolved, and that run has completed.
C3_Witness ==
  /\ fsChanges = 0
  /\ \E p \in Procs : proc[p].pc = "done" /\ proc[p].ret = NilRet
  /\ \E i, j \in 1..Len(execLog) :
       /\ execLog[i].run < execLog[j].run
       /\ execLog[i].script = execLog[j].script
       /\ ~execLog[i].ok

\* The invocation of p repeats the one before it, which returned nil.
RepeatsSuccessfulRun(pr) ==
  /\ pr.pc # "idle"
  /\ pr.prior.kind = "run"
  /\ pr.prior.ret = NilRet
  /\ pr.prior.app = pr.app
  /\ pr.prior.sv = pr.sv

(***************************************************************************)
(* C4. Idempotence: an invocation that directly follows a successful       *)
(* invocation for the same app with the same StartingVersion, nothing      *)
(* having touched the files, the exclusions or the tables in between,      *)
(* hands no statement to the database and leaves both tables as it found   *)
(* them: no History Record and no Statement Record is inserted, and no     *)
(* History Record changes.                                                 *)
(***************************************************************************)
C4_Idempotence ==
  \A p \in Procs :
    RepeatsSuccessfulRun(proc[p]) =>
      /\ Len(execLog) = proc[p].x0
      /\ schema_script_sql = proc[p].ss0
      /\ schema_version = proc[p].sv0

\* The second run has returned, and the first had executed statements.
C4_Witness ==
  \E p \in Procs :
    /\ RepeatsSuccessfulRun(proc[p])
    /\ proc[p].pc = "done"
    /\ proc[p].ret = NilRet
    /\ \E i \in 1..Len(execLog) : execLog[i].run = proc[p].run - 1

(***************************************************************************)
(* C5. First-run shortcut.                                                 *)
(***************************************************************************)
\* The History Records of one app.
AppRecords(rows, app) == SelectSeq(rows, LAMBDA r : r.app = app)

\* The version-greatest script of a non-empty set of scripts.
Greatest(S) == CHOOSE f \in S : \A g \in S : ~VerAfter(g, f)

\* The scripts an invocation without history has to deal with: the files that
\* are not excluded, hold a statement and are not before StartingVersion.
FirstRunCandidates(pr) ==
  {f \in Present :
     /\ ~isExcluded(f, excluded)
     /\ SplitSQLs(files[f]) # <<>>
     /\ pr.sv = <<>> \/ VerAfterEq(f, pr.sv)}

\* C5 as claimed: whenever the app has no History Record as an invocation
\* starts (the table existing or not) and the directory holds a script, the
\* invocation executes no statement and ends with exactly one History Record
\* of the app, for the version-greatest script, with success = true.
C5_ZeroRecordsShortcut ==
  \A p \in Procs :
    LET pr == proc[p]
    IN  (pr.pc # "idle" /\ ~HasRecord(pr.sv0, pr.app) /\ Present # {}) =>
          /\ Len(execLog) = pr.x0
          /\ pr.pc = "done" =>
               /\ Len(AppRecords(schema_version, pr.app)) = 1
               /\ AppRecords(schema_version, pr.app)[1].script = Greatest(Present)
               /\ AppRecords(schema_version, pr.app)[1].success

\* C5 as amended: whenever the schema_version table does not exist as an
\* invocation starts and the directory holds a script that is not excluded,
\* holds a statement and is not before StartingVersion, the invocation
\* executes no statement and ends with exactly one History Record of the
\* app, for the version-greatest of those scripts, with success = true.
C5_TableMissingShortcut ==
  \A p \in Procs :
    LET pr == proc[p]
    IN  (pr.pc # "idle" /\ SchemaVersionTable \notin pr.t0
           /\ FirstRunCandidates(pr) # {}) =>
          /\ Len(execLog) = pr.x0
          /\ pr.pc = "done" =>
               /\ Len(AppRecords(schema_version, pr.app)) = 1
               /\ AppRecords(schema_version, pr.app)[1].script
                    = Greatest(FirstRunCandidates(pr))
               /\ AppRecords(schema_version, pr.app)[1].success

\* The shortcut has recorded the greatest of several candidates, which is not
\* the greatest script of the directory.
C5_Witness ==
  \E p \in Procs :
    /\ proc[p].pc = "done"
    /\ SchemaVersionTable \notin proc[p].t0
    /\ Cardinality(FirstRunCandidates(proc[p])) >= 2
    /\ Greatest(FirstRunCandidates(proc[p])) # Greatest(Present)
    /\ Len(AppRecords(schema_version, proc[p].app)) = 1

(***************************************************************************)
(* C6. First-run shortcut, as the README describes it.                     *)
(***************************************************************************)
\* The scripts of the directory that hold a statement.
NonEmptyScripts == {f \in Present : SplitSQLs(files[f]) # <<>>}

\* The latest History Record of the app at the start of the invocation is
\* the one a first run leaves.
StartsFromInitialized(pr) ==
  /\ HasRecord(pr.sv0, pr.app)
  /\ LatestRecord(pr.sv0, pr.app).remark
       = InitializedRemark(LatestRecord(pr.sv0, pr.app).script)

\* The invocation directly follows a first run that took the shortcut.
FollowsFirstRun(pr) ==
  /\ pr.prior.kind = "run"
  /\ pr.prior.firstRun
  /\ StartsFromInitialized(pr)

\* C6 as claimed: if the schema_version table does not exist as an invocation
\* starts and the directory holds a non-empty script, the invocation executes
\* no statement, writes no Statement Record and inserts a single History
\* Record for the app, for the last non-empty script in version order, with
\* success = true and the remark 'Initialized at version ...'; the run that
\* follows executes nothing.
C6_ReadmeFirstRun ==
  \A p \in Procs :
    LET pr == proc[p]
    IN  /\ (pr.pc # "idle" /\ SchemaVersionTable \notin pr.t0
              /\ NonEmptyScripts # {}) =>
             /\ Len(execLog) = pr.x0
             /\ schema_script_sql = pr.ss0
             /\ pr.pc = "done" =>
                  /\ Len(schema_version) = Len(pr.sv0) + 1
                  /\ schema_version[Len(schema_version)] =
                       [id      |-> Len(schema_version),
                        app     |-> pr.app,
                        script  |-> Greatest(NonEmptyScripts),
                        success |-> TRUE,
                        remark  |-> InitializedRemark(Greatest(NonEmptyScripts))]
        /\ (pr.pc # "idle" /\ FollowsFirstRun(pr)) =>
             Len(execLog) = pr.x0

\* C6 as amended: if the schema_version table does not exist as an invocation
\* starts and the directory holds a script that holds a statement, is not
\* excluded and is not before StartingVersion, the invocation executes no
\* statement, writes no Statement Record, returns nil and inserts a single
\* History Record for the app, for the last of those scripts in version
\* order, with success = true and the remark 'Initialized at version ...';
\* the run that directly follows executes nothing and writes no Statement
\* Record.
C6_ReadmeFirstRunSelected ==
  \A p \in Procs :
    LET pr == proc[p]
    IN  /\ (pr.pc # "idle" /\ SchemaVersionTable \notin pr.t0
              /\ FirstRunCandidates(pr) # {}) =>
             /\ Len(execLog) = pr.x0
             /\ schema_script_sql = pr.ss0
             /\ pr.pc = "done" =>
                  /\ pr.ret = NilRet
                  /\ Len(schema_version) = Len(pr.sv0) + 1
                  /\ schema_version[Len(schema_version)] =
                       [id      |-> Len(schema_version),
                        app     |-> pr.app,
                        script  |-> Greatest(FirstRunCandidates(pr)),
                        success |-> TRUE,
                        remark  |-> InitializedRemark(Greatest(FirstRunCandidates(pr)))]
        /\ (pr.pc # "idle" /\ FollowsFirstRun(pr)) =>
             /\ Len(execLog) = pr.x0
             /\ schema_script_sql = pr.ss0

\* The run that follows a first run has returned, with several non-empty
\* scripts in the directory.
C6_Witness ==
  \E p \in Procs :
    /\ proc[p].pc = "done"
    /\ FollowsFirstRun(proc[p])
    /\ proc[p].ret = NilRet
    /\ Cardinality(NonEmptyScripts) >= 2
    /\ ~HasRecord(proc[p].sv0, OtherApp)

(***************************************************************************)
(* C7. Ordering.                                                           *)
(***************************************************************************)
\* Within one invocation the statements are handed over in ascending order
\* of their scripts' versions: none of a later script precedes one of an
\* earlier script.
ExecutedAscending ==
  \A i, j \in 1..Len(execLog) :
    (i < j /\ execLog[i].run = execLog[j].run) =>
      ~VerAfter(execLog[i].script, execLog[j].script)

\* What an invocation has handed over, as (script, statement) pairs.
RunTrace(run) ==
  LET es == RunEntries(run)
  IN  [i \in 1..Len(es) |-> <<es[i].script, es[i].sql>>]

\* The statements of a script file, as (script, statement) pairs.
ScriptTrace(f) ==
  LET sqls == SplitSQLs(files[f])
  IN  [k \in 1..Len(sqls) |-> <<f, sqls[k]>>]

\* The invocation of p met v0.0.1.sql, v0.0.2.sql and v0.0.3.sql, each with
\* statements, none excluded, with no StartingVersion and no History Record
\* of the app, and has returned nil.
OrderingExample(pr) ==
  /\ pr.pc = "done"
  /\ pr.ret = NilRet
  /\ ~HasRecord(pr.sv0, pr.app)
  /\ pr.sv = <<>>
  /\ excluded = {}
  /\ NonEmptyScripts = FileNames

\* C7 as claimed: scripts are executed in ascending version order whatever
\* the order of the directory listing, and with no prior history of the app
\* v0.0.1.sql, v0.0.2.sql and v0.0.3.sql are executed, in this order.
C7_Ordering ==
  /\ ExecutedAscending
  /\ \A p \in Procs :
       OrderingExample(proc[p]) =>
         RunTrace(proc[p].run)
           = ScriptTrace(V001) \o ScriptTrace(V002) \o ScriptTrace(V003)

\* C7 as amended: scripts are executed in ascending version order whatever
\* the order of the directory listing, and when the schema_version table
\* exists as the invocation starts and holds no History Record of the app,
\* v0.0.1.sql, v0.0.2.sql and v0.0.3.sql are executed, in this order.
C7_OrderingWithTables ==
  /\ ExecutedAscending
  /\ \A p \in Procs :
       (OrderingExample(proc[p]) /\ SchemaVersionTable \in proc[p].t0) =>
         RunTrace(proc[p].run)
           = ScriptTrace(V001) \o ScriptTrace(V002) \o ScriptTrace(V003)

\* The three scripts have been executed by an invocation without history.
C7_Witness ==
  \E p \in Procs :
    /\ OrderingExample(proc[p])
    /\ SchemaVersionTable \in proc[p].t0
    /\ Len(RunEntries(proc[p].run)) >= 5

\* The latest History Record of the app at the start is a successful one.
StartsFromSuccess(pr) ==
  /\ pr.pc # "idle"
  /\ HasRecord(pr.sv0, pr.app)
  /\ LatestRecord(pr.sv0, pr.app).success

\* The later of StartingVersion and the script of the latest History Record.
Baseline(pr) ==
  LET recorded == LatestRecord(pr.sv0, pr.app).script
  IN  IF pr.sv # <<>> /\ VerAfter(pr.sv, recorded) THEN pr.sv ELSE recorded

\* The part of the run's trace that belongs to script f.
RunTraceOf(run, f) == SelectSeq(RunTrace(run), LAMBDA e : e[1] = f)

(***************************************************************************)
(* C8. Selection against the baseline: when the latest History Record of   *)
(* the app is successful as an invocation starts, the invocation executes  *)
(* no statement of a script whose version is before the baseline, and,     *)
(* unless a statement fails, it executes every script of the directory     *)
(* that is not excluded and whose version is strictly after the baseline   *)
(* (all its statements, in file order).  The baseline is the later of      *)
(* StartingVersion and the script of that latest record.                   *)
(***************************************************************************)
C8_BaselineSelection ==
  \A p \in Procs :
    LET pr == proc[p]
    IN  StartsFromSuccess(pr) =>
          /\ \A i \in 1..Len(execLog) :
               execLog[i].run = pr.run =>
                 ~VerAfter(Baseline(pr), execLog[i].script)
          /\ (pr.pc = "done" /\ pr.ret = NilRet) =>
               \A f \in Present :
                 (~isExcluded(f, excluded) /\ VerAfter(f, Baseline(pr))) =>
                   RunTraceOf(pr.run, f) = ScriptTrace(f)

\* The example: v0.0.2.sql was executed last, the directory holds the three
\* scripts, and the run has executed v0.0.3.sql and nothing else.
C8_Witness ==
  \E p \in Procs :
    /\ StartsFromSuccess(proc[p])
    /\ proc[p].pc = "done"
    /\ proc[p].ret = NilRet
    /\ LatestRecord(proc[p].sv0, proc[p].app).script = V002
    /\ \E i \in 1..Len(execLog) :
         execLog[i].script = V002 /\ execLog[i].run < proc[p].run
    /\ Present = FileNames
    /\ RunTrace(proc[p].run) = ScriptTrace(V003)
    /\ ScriptTrace(V003) # <<>>

(***************************************************************************)
(* C9. Incremental statements of the newest script.                        *)
(***************************************************************************)
IsPrefix(s, t) == Len(s) <= Len(t) /\ SubSeq(t, 1, Len(s)) = s

\* What earlier invocations handed over for script f of the app of pr.
EarlierEntries(pr, f) ==
  SelectSeq(SubSeq(execLog, 1, pr.x0),
            LAMBDA e : e.app = pr.app /\ e.script = f)

\* The statements S that earlier invocations applied of script f.
Applied(pr, f) ==
  LET es == EarlierEntries(pr, f)
  IN  [i \in 1..Len(es) |-> es[i].sql]

\* The statements N the file of f holds after the applied ones.
Added(pr, f) ==
  SubSeq(SplitSQLs(files[f]), Len(Applied(pr, f)) + 1, Len(SplitSQLs(files[f])))

\* As the invocation of p starts, v0.0.2.sql is the newest script, it was
\* applied in full with statements S by earlier invocations, none of which
\* failed, its History Record is the latest of the app and successful, and
\* its file now holds S followed by new statements.
AmendedAfterApplied(pr) ==
  /\ pr.pc # "idle"
  /\ V002 \in Present
  /\ \A g \in Present : ~VerAfter(g, V002)
  /\ EarlierEntries(pr, V002) # <<>>
  /\ \A i \in 1..Len(EarlierEntries(pr, V002)) : EarlierEntries(pr, V002)[i].ok
  /\ HasRecord(pr.sv0, pr.app)
  /\ LatestRecord(pr.sv0, pr.app).script = V002
  /\ LatestRecord(pr.sv0, pr.app).success
  /\ IsPrefix(Applied(pr, V002), SplitSQLs(files[V002]))
  /\ Added(pr, V002) # <<>>

\* The Statement Records an invocation writes for statements sqls of f.
StatementRecords(app, f, sqls) ==
  [i \in 1..Len(sqls) |-> [app |-> app, script |-> f, sql_script |-> sqls[i]]]

\* The invocation of p executes the statements sqls of v0.0.2.sql, in this
\* order and no others, and writes Statement Records for them alone, after
\* the ones it found.
ExecutesExactly(pr, sqls) ==
  /\ IsPrefix(RunTrace(pr.run), [i \in 1..Len(sqls) |-> <<V002, sqls[i]>>])
  /\ IsPrefix(pr.ss0, schema_script_sql)
  /\ IsPrefix(schema_script_sql, pr.ss0 \o StatementRecords(pr.app, V002, sqls))
  /\ (pr.pc = "done" /\ pr.ret = NilRet) =>
       /\ Len(RunTrace(pr.run)) = Len(sqls)
       /\ schema_script_sql = pr.ss0 \o StatementRecords(pr.app, V002, sqls)

\* No invocation updates or deletes a Statement Record.
StatementRecordsKept ==
  \A p \in Procs : proc[p].pc # "idle" => IsPrefix(proc[p].ss0, schema_script_sql)

\* C9 as claimed: the next run executes exactly the new statements N, writes
\* Statement Records for N alone and leaves the earlier ones as they were.
C9_Incremental ==
  /\ StatementRecordsKept
  /\ \A p \in Procs :
       AmendedAfterApplied(proc[p]) =>
         ExecutesExactly(proc[p], Added(proc[p], V002))

\* The statements of sqls whose text is not the text of a statement of S.
NotYetApplied(pr, sqls) ==
  SelectSeq(sqls, LAMBDA s : \A i \in 1..Len(Applied(pr, V002)) : Applied(pr, V002)[i] # s)

\* C9 as amended: the next run executes exactly the statements of N whose
\* text is not the text of a statement of S, in file order, writes Statement
\* Records for these alone and leaves the earlier ones as they were.
C9_IncrementalByText ==
  /\ StatementRecordsKept
  /\ \A p \in Procs :
       AmendedAfterApplied(proc[p]) =>
         ExecutesExactly(proc[p], NotYetApplied(proc[p], Added(proc[p], V002)))

\* The README's case: the run has executed the two statements added to
\* v0.0.2.sql and returned nil.
C9_Witness ==
  \E p \in Procs :
    /\ AmendedAfterApplied(proc[p])
    /\ proc[p].pc = "done"
    /\ proc[p].ret = NilRet
    /\ Len(Applied(proc[p], V002)) = 3
    /\ Len(RunTrace(proc[p].run)) = 2

\* The invocation of p has had a statement fail.
HasFailed(pr) ==
  \E k \in 1..Len(execLog) : execLog[k].run = pr.run /\ ~execLog[k].ok

(***************************************************************************)
(* C10. Halt on first failure: a failed statement is the last statement    *)
(* its invocation hands to the database (no remaining statement of the     *)
(* script, no later script, no second attempt), no Statement Record is     *)
(* written after it, and the invocation returns the error of that          *)
(* statement.                                                              *)
(***************************************************************************)
C10_HaltOnFirstFailure ==
  /\ \A k \in 1..Len(execLog) :
       ~execLog[k].ok =>
         \A j \in (k + 1)..Len(execLog) : execLog[j].run # execLog[k].run
  /\ \A p \in Procs :
       LET pr == proc[p]
           es == RunEntries(pr.run)
       IN  (pr.pc # "idle" /\ HasFailed(pr)) =>
             /\ pr.pc \in {"save_select", "save_write", "done"}
             /\ pr.ret = ExecFailedError(es[Len(es)].script, es[Len(es)].sql,
                                         [text |-> pr.ret.err])
             /\ Len(SelectSeq(schema_script_sql, LAMBDA r : r.app = pr.app))
                  = Len(SelectSeq(pr.ss0, LAMBDA r : r.app = pr.app)) + Len(es)

\* The first statement of v0.0.2.sql failed after v0.0.1.sql had run: the
\* invocation has returned without touching the rest of v0.0.2.sql or
\* v0.0.3.sql, which is there, holds a statement and is not excluded.
C10_Witness ==
  \E p \in Procs :
    LET es == RunEntries(proc[p].run)
    IN  /\ proc[p].pc = "done"
        /\ HasFailed(proc[p])
        /\ Len(es) = 2
        /\ es[1].script = V001
        /\ es[2].script = V002
        /\ Len(SplitSQLs(files[V002])) = 3
        /\ SplitSQLs(files[V003]) # <<>>
        /\ ~isExcluded(V003, excluded)

\* The driver error whose text the invocation of p returned.
ReturnedDriverError(pr) == CHOOSE e \in DriverErrors : e.text = pr.ret.err

\* The Statement Records of one script of one app.
ScriptRecords(rows, app, f) ==
  SelectSeq(rows, LAMBDA r : r.app = app /\ r.script = f)

\* The History Records of one script of one app.
ScriptHistory(rows, app, f) ==
  SelectSeq(rows, LAMBDA r : r.app = app /\ r.script = f)

\* The statements of script f the invocation run handed over.
RunStatements(run, f) ==
  LET es == RunTraceOf(run, f)
  IN  [i \in 1..Len(es) |-> es[i][2]]

(***************************************************************************)
(* C11. Bookkeeping after a partial failure: when an invocation has        *)
(* returned after one of its statements failed, the Statement Records it   *)
(* added for the failing script are those of the statements it handed      *)
(* over, the failed one last and none for a statement after it, and the    *)
(* script has one History Record, with success = false and the error text  *)
(* of the failed statement, cut to 255 characters, as its remark.          *)
(***************************************************************************)
C11_PartialFailureBookkeeping ==
  \A p \in Procs :
    LET pr == proc[p]
        es == RunEntries(pr.run)
        f  == es[Len(es)].script
    IN  (pr.pc = "done" /\ HasFailed(pr)) =>
          /\ ScriptRecords(schema_script_sql, pr.app, f)
               = ScriptRecords(pr.ss0, pr.app, f)
                   \o StatementRecords(pr.app, f, RunStatements(pr.run, f))
          /\ IsPrefix(RunStatements(pr.run, f),
                      SplitSQLs(files[f]) )
               \/ ScriptRecords(pr.ss0, pr.app, f) # <<>>
          /\ Len(ScriptHistory(schema_version, pr.app, f)) = 1
          /\ ~ScriptHistory(schema_version, pr.app, f)[1].success
          /\ ScriptHistory(schema_version, pr.app, f)[1].remark.len
               = IF ReturnedDriverError(pr).len > 255 THEN 255
                 ELSE ReturnedDriverError(pr).len
          /\ ScriptHistory(schema_version, pr.app, f)[1].remark
               = TruncateRemark(ReturnedDriverError(pr))

\* v0.0.2.sql with statements A, B, C was run from its start: A succeeded, B
\* failed, and the invocation has returned with records for A and B alone.
C11_Witness ==
  \E p \in Procs :
    /\ proc[p].pc = "done"
    /\ HasFailed(proc[p])
    /\ SplitSQLs(files[V002]) = <<"A", "B", "C">>
    /\ RunStatements(proc[p].run, V002) = <<"A", "B">>
    /\ ScriptRecords(schema_script_sql, proc[p].app, V002)
         = StatementRecords(proc[p].app, V002, <<"A", "B">>)

\* The baseline of the invocation of p has been chosen.
BaselineChosen(pr) ==
  /\ pr.pc \notin {"idle", "create"}
  /\ pr.ret.kind # "previous_failed"

\* b is the later of the versions x and y.
LaterOf(b, x, y) == b \in {x, y} /\ ~VerAfter(x, b) /\ ~VerAfter(y, b)

\* The invocation of p hands over a statement of a script that an earlier
\* invocation handed over already.
RunsAgain(pr) ==
  \E j \in 1..Len(execLog) :
    /\ execLog[j].run = pr.run
    /\ \E i \in 1..pr.x0 :
         /\ execLog[i].app = execLog[j].app
         /\ execLog[i].script = execLog[j].script
         /\ execLog[i].sql = execLog[j].sql

(***************************************************************************)
(* C12. Baseline resolution: the baseline an invocation works from is the  *)
(* later of StartingVersion and the script of the app's latest History     *)
(* Record when there are both, the one there is when there is one, and     *)
(* none when there is neither; StartingVersion v0.0.3 with v0.0.4.sql      *)
(* recorded gives v0.0.4.sql and with v0.0.2.sql recorded gives v0.0.3;    *)
(* and an invocation whose StartingVersion is before the recorded script   *)
(* hands over no statement that was handed over before.                    *)
(***************************************************************************)
C12_BaselineResolution ==
  /\ ResolveLast(<<"v", "0", ".", "0", ".", "3">>, TRUE,
                 <<"v", "0", ".", "0", ".", "4", ".", "s", "q", "l">>)
       = <<"v", "0", ".", "0", ".", "4", ".", "s", "q", "l">>
  /\ ResolveLast(<<"v", "0", ".", "0", ".", "3">>, TRUE,
                 <<"v", "0", ".", "0", ".", "2", ".", "s", "q", "l">>)
       = <<"v", "0", ".", "0", ".", "3">>
  /\ \A p \in Procs :
       LET pr  == proc[p]
           has == HasRecord(pr.sv0, pr.app)
           rec == LatestRecord(pr.sv0, pr.app).script
       IN  /\ BaselineChosen(pr) =>
                IF pr.sv # <<>> /\ has THEN LaterOf(pr.last, pr.sv, rec)
                ELSE IF pr.sv # <<>> THEN pr.last = pr.sv
                ELSE IF has THEN pr.last = rec
                ELSE pr.last = <<>>
           /\ (pr.pc # "idle" /\ pr.sv # <<>> /\ has /\ VerAfter(rec, pr.sv)) =>
                ~RunsAgain(pr)

\* An invocation with StartingVersion v0.0.2 met v0.0.3.sql as the recorded
\* script, which earlier invocations had executed, and has returned nil.
C12_Witness ==
  \E p \in Procs :
    /\ proc[p].pc = "done"
    /\ proc[p].ret = NilRet
    /\ proc[p].sv = <<"v", "0", ".", "0", ".", "2">>
    /\ HasRecord(proc[p].sv0, proc[p].app)
    /\ LatestRecord(proc[p].sv0, proc[p].app).script = V003
    /\ proc[p].last = V003
    /\ \E i \in 1..proc[p].x0 : execLog[i].script = V002
    /\ V002 \in Present

(***************************************************************************)
(* The caller may pass any configuration.                                  *)
(***************************************************************************)
\* The directory of the README: three scripts.
ReadmeDir ==
  [f \in FileNames |-> IF f = V002 THEN <<"A", "B", "C", Blank>> ELSE <<"A", Blank>>]

\* The directory as released, and as it was before its third script was added.
ReadmeDirs == {ReadmeDir, [ReadmeDir EXCEPT ![V003] = NoFile]}

InitConfig == Init /\ files \in ReadmeDirs

NextConfig ==
  \/ \E app \in Apps, sv \in StartingVersions, cfg \in Configs :
       Reject("p1", app, sv, cfg)
  \/ MigrateSchema("p1")
  \/ Environment

SpecConfig == InitConfig /\ [][NextConfig]_vars

\* The invocation of p has touched nothing in the database.
NoDatabaseEffect(pr) ==
  /\ tables = pr.t0
  /\ schema_version = pr.sv0
  /\ schema_script_sql = pr.ss0
  /\ Len(execLog) = pr.x0

(***************************************************************************)
(* C13. Configuration errors: when the script source, the logger or the    *)
(* database connection is nil, whichever of them and however many,         *)
(* MigrateSchema returns an error to its caller and has performed no       *)
(* database operation.                                                     *)
(***************************************************************************)
C13_ConfigErrors ==
  \A p \in Procs :
    LET pr == proc[p]
    IN  (pr.pc # "idle" /\ pr.cfg # ValidConfig) =>
          /\ pr.pc = "done"
          /\ pr.ret.kind = "config_error"
          /\ NoDatabaseEffect(pr)

(***************************************************************************)
(* The script source and the database may fail.                            *)
(***************************************************************************)
\* The error of runSQLFile when the INSERT of the Statement Record failed.
SaveStatementError(script) == [kind |-> "save_statement_failed", script |-> script]

\* The statement is executed although its record could not be saved.
OnRecordErrorExecuted(pr) == [pr EXCEPT !.pc = "exec", !.fault = "record"]

\* What runSQLFile does when the INSERT INTO schema_script_sql returned an
\* error: it returns, before db.Exec(sql) and without saveSchemaVer.
OnRecordError(pr) ==
  [pr EXCEPT !.pc = "done", !.fault = "record", !.ret = SaveStatementError(pr.fname)]

\* The INSERT of the Statement Record fails.
RecordFails(p) ==
  /\ proc[p].pc = "stmt"
  /\ proc[p].k <= Len(proc[p].segments)
  /\ Set(p, OnRecordError(proc[p]))
  /\ UNCHANGED <<tables, schema_version, schema_script_sql, files, excluded,
                 execLog, runs, fsChanges, failPending>>

CrashRet == [kind |-> "crashed"]

\* The process dies in the middle of MigrateSchema; when it dies with
\* db.Exec(sql) in flight, the database has run the statement or has not.
Crash(p) ==
  /\ proc[p].pc \notin {"idle", "done"}
  /\ Set(p, [proc[p] EXCEPT !.pc = "done", !.fault = "crash", !.ret = CrashRet])
  /\ \/ UNCHANGED execLog
     \/ /\ proc[p].pc = "exec"
        /\ execLog' = Append(execLog, LogEntry(proc[p], TRUE))
  /\ UNCHANGED <<tables, schema_version, schema_script_sql, files, excluded,
                 runs, fsChanges, failPending>>

\* The database fails to save a Statement Record, or the process dies.
NextCrash == MigrateSchema("p1") \/ RecordFails("p1") \/ Crash("p1")

SpecCrash == InitConfig /\ [][NextCrash]_vars

\* The directory with its file f unreadable.
WithUnreadable(dir, f) == [dir EXCEPT ![f] = NoFile]

\* fs.ReadFile is called on the file f of the directory and fails.
ReadFileFails(p, f) ==
  /\ proc[p].pc = "discover"
  /\ files[f] # NoFile
  /\ \E listing \in Listings(files) :
       /\ convertSchemaFiles(proc[p].last, listing, WithUnreadable(files, f), excluded).err
       /\ DiscoverIn(p, listing, WithUnreadable(files, f))

\* The script source fails to read a file.
NextRead == MigrateSchema("p1") \/ \E f \in FileNames : ReadFileFails("p1", f)

SpecRead == InitConfig /\ [][NextRead]_vars

Faults(p) ==
  \/ \E err \in ReadDirErrors : ReadDirFails(p, err)

NextFaults == MigrateSchema("p1") \/ Faults("p1") \/ Environment

SpecFaults == InitConfig /\ [][NextFaults]_vars

\* The invocation of p has executed nothing and written no record.
NothingExecutedOrRecorded(pr) ==
  /\ schema_version = pr.sv0
  /\ schema_script_sql = pr.ss0
  /\ Len(execLog) = pr.x0

(***************************************************************************)
(* C14. Missing directory: when listing the base directory fails because   *)
(* it does not exist, MigrateSchema returns nil and has executed no        *)
(* statement and written no History or Statement Record; when listing      *)
(* fails for another reason it returns an error and has likewise executed  *)
(* and recorded nothing.                                                   *)
(***************************************************************************)
C14_MissingDirectory ==
  \A p \in Procs :
    LET pr == proc[p]
    IN  /\ pr.fault = "not_exist" =>
             /\ pr.pc = "done"
             /\ pr.ret = NilRet
             /\ NothingExecutedOrRecorded(pr)
        /\ pr.fault = "io_error" =>
             /\ pr.pc = "done"
             /\ pr.ret.kind = "readdir_failed"
             /\ NothingExecutedOrRecorded(pr)

\* On a fresh database, with scripts to run, the directory was reported
\* missing: the tables are there and hold nothing.
C14_Witness ==
  \E p \in Procs :
    /\ proc[p].fault = "not_exist"
    /\ proc[p].firstRun
    /\ SchemaVersionTable \in tables
    /\ schema_version = <<>>
    /\ NonEmptyScripts # {}

(***************************************************************************)
(* The version comparators, applied to pairs of names.                     *)
(***************************************************************************)
\* The names compared: those of the tests and of the README, names of equal
\* version, a multi-digit component, names without a number, the empty name.
VersionNames ==
  {<<"v","1",".","1",".","3",".","4",".","s","q","l">>,
   <<"v","2",".","0",".","3",".","s","q","l">>,
   <<"v","2">>,
   <<"v","1",".","2",".","3">>,
   <<"2",".","1">>,
   <<"1">>,
   V001, V002,
   <<"v","0",".","0",".","2">>,
   <<"v","0",".","0",".","2",".","0",".","s","q","l">>,
   <<"v","1","0">>,
   <<"v","1",".","x",".","s","q","l">>,
   <<"i","n","i","t",".","s","q","l">>,
   <<"d","a","t","a",".","s","q","l">>,
   <<>>}

\* A pair of names is about to be compared.
InitVersions ==
  /\ tables = {}
  /\ schema_version = <<>>
  /\ schema_script_sql = <<>>
  /\ files = [f \in FileNames |-> NoFile]
  /\ excluded = {}
  /\ \E a \in VersionNames, b \in VersionNames :
       proc = [p \in Procs |->
                 IF p = "p1" THEN [IdleProc EXCEPT !.fname = a, !.last = b]
                 ELSE IdleProc]
  /\ execLog = <<>>
  /\ runs = 0
  /\ fsChanges = 0
  /\ failPending = {}

\* The comparators are called on the pair, in both orders and on a name and
\* itself.
CompareVersions(p) ==
  /\ proc[p].pc = "idle"
  /\ LET a == proc[p].fname
         b == proc[p].last
     IN  Set(p, [proc[p] EXCEPT
                   !.pc = "done",
                   !.ret = [kind    |-> "compared",
                            after   |-> VerAfter(a, b),
                            before  |-> VerAfter(b, a),
                            eq      |-> VerEq(a, b),
                            afterEq |-> VerAfterEq(a, b),
                            self    |-> VerEq(a, a),
                            selfAfter |-> VerAfter(a, a)]])
  /\ UNCHANGED <<tables, schema_version, schema_script_sql, files, excluded,
                 execLog, runs, fsChanges, failPending>>

NextVersions == CompareVersions("p1")

SpecVersions == InitVersions /\ [][NextVersions]_vars

\* The i-th component of a name's version as a number, zero past its end.
Component(name, i) ==
  IF i <= Len(VerParts(name)) THEN ParseInt(VerParts(name)[i]) ELSE 0

\* The two names carry the same version: component by component when both
\* have numeric components, as names otherwise.
SameVersion(a, b) ==
  IF HasNumericPart(VerParts(a)) /\ HasNumericPart(VerParts(b))
  THEN \A i \in 1..Max(Len(VerParts(a)), Len(VerParts(b))) :
         Component(a, i) = Component(b, i)
  ELSE a = b

(***************************************************************************)
(* C15. Comparator antisymmetry and reflexivity: for names a and b,        *)
(* VerAfter(a, b) and VerAfter(b, a) are never both true, both are false   *)
(* exactly when a and b carry the same version (and then, and only then,   *)
(* VerEq(a, b) holds), and a name compares Equal to itself.                *)
(***************************************************************************)
C15_ComparatorAntisymmetry ==
  \A p \in Procs :
    LET r == proc[p].ret
    IN  r.kind = "compared" =>
          /\ ~(r.after /\ r.before)
          /\ (~r.after /\ ~r.before) <=> SameVersion(proc[p].fname, proc[p].last)
          /\ r.eq <=> (~r.after /\ ~r.before)
          /\ r.self
          /\ ~r.selfAfter

\* Two different names of the same version have been compared.
C15_Witness ==
  \E p \in Procs :
    /\ proc[p].ret.kind = "compared"
    /\ proc[p].fname # proc[p].last
    /\ ~proc[p].ret.after
    /\ ~proc[p].ret.before
    /\ proc[p].fname = V002

\* The first component in which the padded versions of a and b differ is
\* numerically greater in a.
FirstDifferenceGreater(a, b) ==
  \E i \in 1..Max(Len(VerParts(a)), Len(VerParts(b))) :
    /\ Component(a, i) > Component(b, i)
    /\ \A j \in 1..(i - 1) : Component(a, j) = Component(b, j)

\* PadVer and VerAfter on the values of their tests.
ComparatorExamples ==
  /\ PadVer(<< <<"1">> >>, 3) = << <<"1">>, <<"0">>, <<"0">> >>
  /\ ~VerAfter(<<"v","1",".","1",".","3",".","4",".","s","q","l">>,
               <<"v","2",".","0",".","3",".","s","q","l">>)
  /\ VerAfter(<<"v","2">>, <<"v","1",".","2",".","3">>)
  /\ VerAfter(<<"2",".","1">>, <<"1">>)

\* C16 as claimed: VerAfter(a, b) holds exactly when, the leading 'v' and the
\* file extension stripped, the names split on '.' and the shorter list
\* padded with zeros on the right, the first differing component of a is
\* numerically greater than that of b; PadVer(["1"], 3) = ["1", "0", "0"],
\* VerAfter("v1.1.3.4.sql", "v2.0.3.sql") is false, VerAfter("v2", "v1.2.3")
\* and VerAfter("2.1", "1") are true.
C16_ComponentWise ==
  /\ ComparatorExamples
  /\ \A p \in Procs :
       proc[p].ret.kind = "compared" =>
         (proc[p].ret.after <=> FirstDifferenceGreater(proc[p].fname, proc[p].last))

\* C16 as amended: this is so when both names have a numeric component; when
\* one of them has none, VerAfter(a, b) holds exactly when the name a is
\* greater than the name b byte by byte.
C16_ComponentWiseOrByteWise ==
  /\ ComparatorExamples
  /\ \A p \in Procs :
       LET a == proc[p].fname
           b == proc[p].last
       IN  proc[p].ret.kind = "compared" =>
             IF HasNumericPart(VerParts(a)) /\ HasNumericPart(VerParts(b))
             THEN proc[p].ret.after <=> FirstDifferenceGreater(a, b)
             ELSE proc[p].ret.after <=> StrCmp(a, b) = 1

\* "v2" has been found after "v1.2.3": the shorter list was padded.
C16_Witness ==
  \E p \in Procs :
    /\ proc[p].ret.kind = "compared"
    /\ proc[p].fname = <<"v","2">>
    /\ proc[p].last = <<"v","1",".","2",".","3">>
    /\ proc[p].ret.after

(***************************************************************************)
(* Names in either letter case: the name handed to ExcludeFile and the     *)
(* names of the directory entries.                                         *)
(***************************************************************************)
\* A name with its first letter in upper case: "V0.0.3.sql".
Capitalized(name) == <<UpperChars[IndexOf(name[1], LowerChars)]>> \o Tail(name)

\* The names the application hands to ExcludeFile, in either letter case.
ExcludeNamesAnyCase == {V001, V003, Capitalized(V003)}

\* The listings of a directory of which one script file may carry its name
\* with an upper-case letter.
ListingsAnyCase(dir) ==
  {[i \in 1..Len(l) |->
      IF l[i].name \in up THEN [l[i] EXCEPT !.name = Capitalized(l[i].name)] ELSE l[i]] :
     l \in Listings(dir), up \in {{}} \cup {{f} : f \in FileNames}}

\* The directory as a case-sensitive file system holds it: each file under
\* the name of its entry.
StoredAs(dir, listing) ==
  LET names == {listing[i].name : i \in {j \in 1..Len(listing) : listing[j].regular}}
  IN  [n \in names |-> IF ToLower(n) \in DOMAIN dir THEN dir[ToLower(n)] ELSE NoFile]

\* c.Fs.ReadDir lists names in either case; fs.ReadFile of the lower-cased
\* path finds the file on a case-insensitive file system, and on a
\* case-sensitive one when the entry's name is in lower case.
DiscoverAnyCase(p) ==
  \E listing \in ListingsAnyCase(files) :
    \E dir \in {files, StoredAs(files, listing)} : DiscoverIn(p, listing, dir)

MigrateSchemaAnyCase(p) ==
  \/ \E app \in Apps, sv \in StartingVersions : Start(p, app, sv)
  \/ Prepare(p)
  \/ DiscoverAnyCase(p)
  \/ Loop(p)
  \/ Stmt(p)
  \/ ExecOk(p)
  \/ ExecFail(p)
  \/ SaveSelect(p)
  \/ SaveWrite(p)

NextExclude ==
  \/ MigrateSchemaAnyCase("p1")
  \/ \E name \in ExcludeNamesAnyCase : ExcludeFile(name)

SpecExclude == InitConfig /\ [][NextExclude]_vars

\* The file f of the directory is named by a call of ExcludeFile, in
\* whatever letter case.
NamedByExcludeFile(f) == \E n \in excluded : ToLower(n) = f

\* The invocation of p has not read the file f, has executed none of its
\* statements and has written no History or Statement Record for it.
Untouched(pr, f) ==
  /\ f \notin pr.read
  /\ \A i \in (pr.x0 + 1)..Len(execLog) : execLog[i].script # f
  /\ ScriptHistory(schema_version, pr.app, f) = ScriptHistory(pr.sv0, pr.app, f)
  /\ ScriptRecords(schema_script_sql, pr.app, f) = ScriptRecords(pr.ss0, pr.app, f)

\* C17. Exclusion: a file named by ExcludeFile, in whatever letter case the
\* name was given and in whatever case it is listed, and whatever its
\* version, is not read, not executed and not recorded in history by an
\* invocation that starts after the call.
C17_Exclusion ==
  \A p \in Procs : \A f \in FileNames :
    (proc[p].pc # "idle" /\ NamedByExcludeFile(f)) => Untouched(proc[p], f)

\* The error ret carries the name of the script and the 1-based index k of
\* the statement among its format arguments.
NamesScriptAndIndex(ret, script, k) ==
  /\ ret.script = script
  /\ "index" \in DOMAIN ret
  /\ ret.index = k

\* C18. Statement-failure error content: when a statement has failed, the
\* error MigrateSchema returns names the script and the 1-based index of the
\* failing statement within that script.
C18_ErrorNamesIndex ==
  \A p \in Procs :
    (proc[p].ret.kind = "exec_failed") =>
      NamesScriptAndIndex(proc[p].ret, proc[p].fname, proc[p].k)

\* A Statement Record (app, script, sql) is in schema_script_sql.
Recorded(app, script, sql) ==
  \E i \in 1..Len(schema_script_sql) :
    /\ schema_script_sql[i].app = app
    /\ schema_script_sql[i].script = script
    /\ schema_script_sql[i].sql_script = sql

\* Every statement handed to the database has its Statement Record.
ExecutedAreRecorded ==
  \A i \in 1..Len(execLog) : Recorded(execLog[i].app, execLog[i].script, execLog[i].sql)

\* The invocation has crashed between the insert of a Statement Record and
\* the execution of its statement.
CrashedBetween(pr) ==
  /\ pr.fault = "crash"
  /\ Len(schema_script_sql) = Len(pr.ss0) + 1
  /\ Len(execLog) = pr.x0

\* C19. Record-before-execute: the Statement Record (app, script, statement
\* text) of a statement is in schema_script_sql when its execution begins,
\* so in every state, a crash between the two steps included, the
\* statements executed for (app, script) are among the recorded ones; when
\* the insert of the Statement Record fails, the statement is not executed
\* and the invocation returns an error.
C19_RecordBeforeExecute ==
  /\ ExecutedAreRecorded
  /\ \A p \in Procs :
       LET pr == proc[p]
       IN  /\ pr.pc = "exec" => Recorded(pr.app, pr.fname, pr.segments[pr.k])
           /\ pr.fault = "record" =>
                /\ pr.pc = "done"
                /\ pr.ret = SaveStatementError(pr.fname)
                /\ Len(RunTraceOf(pr.run, pr.fname)) = pr.k - 1
                /\ Len(ScriptRecords(schema_script_sql, pr.app, pr.fname))
                     = Len(ScriptRecords(pr.ss0, pr.app, pr.fname)) + pr.k - 1

\* An invocation has crashed after recording a statement and before
\* executing it, after the invocation before it returned because the insert
\* of a Statement Record failed.
C19_Witness ==
  \E p \in Procs :
    /\ CrashedBetween(proc[p])
    /\ proc[p].prior.kind = "run"
    /\ proc[p].prior.ret.kind = "save_statement_failed"

\* The invocation of p has executed no statement of script f and has written
\* no History or Statement Record for it.
NotExecutedNorRecorded(pr, f) ==
  /\ RunTraceOf(pr.run, f) = <<>>
  /\ ScriptHistory(schema_version, pr.app, f) = ScriptHistory(pr.sv0, pr.app, f)
  /\ ScriptRecords(schema_script_sql, pr.app, f) = ScriptRecords(pr.ss0, pr.app, f)

\* The script f of the directory has the version of the baseline of the
\* invocation of p, and no Statement Record of it exists as p starts.
AtBaselineUnrecorded(pr, f) ==
  /\ BaselineChosen(pr)
  /\ f \in Present
  /\ VerEq(f, pr.last)
  /\ QueryExecuted(pr.ss0, pr.app, f) = {}

\* C20 as claimed: a script whose version equals the baseline and that has
\* no Statement Record is not executed, and no record is written for it,
\* even when the file has gained statements since it was recorded.
C20_BaselineScriptSkipped ==
  \A p \in Procs : \A f \in FileNames :
    AtBaselineUnrecorded(proc[p], f) => NotExecutedNorRecorded(proc[p], f)

\* The one History Record the first-run shortcut writes for script f.
ShortcutHistory(rows, app, f) ==
  /\ Len(ScriptHistory(rows, app, f)) = 1
  /\ ScriptHistory(rows, app, f)[1].success
  /\ ScriptHistory(rows, app, f)[1].remark = InitializedRemark(f)

\* C20 as amended: a script whose version equals the baseline and that has
\* no Statement Record is not executed and no Statement Record is written
\* for it, even when the file has gained statements since it was recorded;
\* no History Record is written for it either, but for the record of the
\* first-run shortcut when the invocation is a first run.
C20_BaselineScriptSkippedButShortcut ==
  \A p \in Procs : \A f \in FileNames :
    LET pr == proc[p]
    IN  AtBaselineUnrecorded(pr, f) =>
          /\ RunTraceOf(pr.run, f) = <<>>
          /\ ScriptRecords(schema_script_sql, pr.app, f) = ScriptRecords(pr.ss0, pr.app, f)
          /\ \/ ScriptHistory(schema_version, pr.app, f) = ScriptHistory(pr.sv0, pr.app, f)
             \/ /\ pr.firstRun
                /\ ScriptHistory(pr.sv0, pr.app, f) = <<>>
                /\ ShortcutHistory(schema_version, pr.app, f)

\* An invocation has returned nil without executing anything although the
\* script at its baseline, recorded by the first-run shortcut and with no
\* Statement Record, has gained the statements D and E since.
C20_Witness ==
  \E p \in Procs : \E f \in FileNames :
    /\ proc[p].pc = "done"
    /\ proc[p].ret = NilRet
    /\ AtBaselineUnrecorded(proc[p], f)
    /\ ShortcutHistory(proc[p].sv0, proc[p].app, f)
    /\ \E i \in 1..Len(files[f]) : files[f][i] = "D"
    /\ Len(execLog) = proc[p].x0

\* The invocation of p has run script f to its end: its statements were all
\* handed over and none failed, and saveSchemaVer has returned.
CompletedScript(pr, f) ==
  /\ \E j \in 1..Len(pr.schemaFiles) :
       /\ j < pr.i
       /\ pr.schemaFiles[j].Name = f
  /\ pr.pc \in {"loop", "stmt", "exec", "save_select", "save_write", "done"}
  /\ RunTraceOf(pr.run, f) # <<>>
  /\ \A j \in (pr.x0 + 1)..Len(execLog) : execLog[j].script = f => execLog[j].ok

\* C21. Per-script history upsert: once all statements of a script have
\* succeeded, a History Record of (app, script) with success = true exists;
\* and with one writer there is, after any sequence of invocations, at most
\* one History Record per (app, script): the row that exists is updated and
\* no second one inserted.
C21_HistoryUpsert ==
  /\ \A app \in Apps \cup {OtherApp} : \A f \in FileNames :
       Len(ScriptHistory(schema_version, app, f)) <= 1
  /\ \A p \in Procs : \A f \in FileNames :
       CompletedScript(proc[p], f) =>
         /\ Len(ScriptHistory(schema_version, proc[p].app, f)) = 1
         /\ ScriptHistory(schema_version, proc[p].app, f)[1].success

\* An invocation has run a script to its end whose History Record an earlier
\* invocation had written: the row was updated.
C21_Witness ==
  \E p \in Procs : \E f \in FileNames :
    /\ CompletedScript(proc[p], f)
    /\ Len(ScriptHistory(proc[p].sv0, proc[p].app, f)) = 1
    /\ proc[p].pc = "done"

\* C22. Read error: when reading the content of a candidate script fails,
\* MigrateSchema returns an error that names the path of that script, and
\* the invocation executes no statement of any script, those ordered before
\* the unreadable one included, and writes no History or Statement Record;
\* no read error goes unreturned.
C22_ReadError ==
  \A p \in Procs :
    LET pr == proc[p]
    IN  /\ pr.ret.kind = "read_failed" =>
             /\ pr.ret.path \in pr.read \cap pr.unreadable
             /\ NothingExecutedOrRecorded(pr)
        /\ (pr.read \cap pr.unreadable # {}) =>
             /\ pr.pc = "done"
             /\ pr.ret.kind = "read_failed"

\* v0.0.3.sql could not be read, and the readable v0.0.1.sql and v0.0.2.sql
\* before it were candidates of the invocation.
C22_Witness ==
  \E p \in Procs :
    /\ proc[p].ret.kind = "read_failed"
    /\ proc[p].ret.path = V003
    /\ proc[p].read = {V001, V002, V003}
    /\ ~proc[p].firstRun

(***************************************************************************)
(* Driver errors whose texts are as long as the remark may be, shorter and *)
(* longer.                                                                 *)
(***************************************************************************)
ErrorLengths == {254, 255, 256, 300}

LongDriverErrors ==
  {[text |-> <<"Error 1406: data too long ...", n>>, len |-> n] : n \in ErrorLengths}

MigrateSchemaLongErrors(p) ==
  \/ \E app \in Apps, sv \in StartingVersions : Start(p, app, sv)
  \/ Prepare(p)
  \/ Discover(p)
  \/ Loop(p)
  \/ Stmt(p)
  \/ ExecOk(p)
  \/ ExecFailWith(p, LongDriverErrors)
  \/ SaveSelect(p)
  \/ SaveWrite(p)

NextRemark ==
  \/ MigrateSchemaLongErrors("p1")
  \/ \E app \in Apps : Resolve(app)

SpecRemark == InitConfig /\ [][NextRemark]_vars

\* The remark written is the first 255 runes of the text intended, or the
\* whole text when that is not longer.
FirstRunesOf(written, intended) ==
  /\ written.len <= 255
  /\ intended.len <= 255 => written = intended
  /\ intended.len > 255 =>
       /\ written.len = 255
       /\ written.text = <<"first 255 runes of">> \o intended.text

\* saveSchemaVer has returned to the invocation of p.
Saved(pr) ==
  /\ pr.save.then # "none"
  /\ pr.pc \notin {"save_select", "save_write"}

\* C23. Remark bound: every History Record the engine writes, on success, on
\* failure and by the first-run shortcut, has a remark of at most 255
\* characters: the first 255 characters of the text intended when that text
\* is longer, the whole text otherwise.
C23_RemarkBound ==
  /\ \A i \in 1..Len(schema_version) : schema_version[i].remark.len <= 255
  /\ \A p \in Procs :
       LET pr == proc[p]
       IN  Saved(pr) =>
             /\ Len(ScriptHistory(schema_version, pr.app, pr.save.script)) = 1
             /\ FirstRunesOf(ScriptHistory(schema_version, pr.app, pr.save.script)[1].remark,
                             pr.save.remark)
             /\ pr.save.remark \in LongDriverErrors
                                   \cup {ExecutedRemark, InitializedRemark(pr.save.script)}

\* A failed statement has left a History Record whose remark is the first
\* 255 runes of a driver error of 256.
C23_Witness ==
  \E p \in Procs :
    /\ Saved(proc[p])
    /\ proc[p].save.remark.len = 256
    /\ ~proc[p].save.success
    /\ ScriptHistory(schema_version, proc[p].app, proc[p].save.script)[1].remark.len = 255

(***************************************************************************)
(* Two callers at a time, on a database without the history tables.        *)
(***************************************************************************)
\* The invocations of a race.
MaxRacers == 2

\* The database is without the history tables; the invocations before the
\* race were turned away for their configuration.
InitRace ==
  /\ \E db \in InitialDbs :
       /\ db.tables = {}
       /\ tables = db.tables
       /\ schema_version = db.rows
  /\ schema_script_sql = <<>>
  /\ files \in ReadmeDirs
  /\ excluded = {}
  /\ proc = [p \in Procs |-> IdleProc]
  /\ execLog = <<>>
  /\ runs = MaxRuns - MaxRacers
  /\ fsChanges = 0
  /\ failPending = {}

NextRace == MigrateSchema("p1") \/ MigrateSchema("p2")

SpecRace == InitRace /\ [][NextRace]_vars

\* The invocations that found no row of (app, f) in saveSchemaVer and have
\* written the record of the first-run shortcut for f.
ShortcutInserts(app, f) ==
  {p \in Procs :
     /\ Saved(proc[p])
     /\ proc[p].save.then = "init"
     /\ proc[p].save.id = 0
     /\ proc[p].app = app
     /\ proc[p].save.script = f}

\* C24. Racing first runs: when invocations for one app run concurrently on
\* a database without the history tables, the creation of the tables fails
\* in none of them, and each that found no History Record of the script in
\* saveSchemaVer inserts one: when both did, two records of the same
\* (app, script) are left, which the engine does not prevent.
C24_RacingFirstRuns ==
  /\ \A p \in Procs :
       /\ proc[p].ret.kind # "create_failed"
       /\ proc[p].pc \notin {"idle", "create"} =>
            {SchemaVersionTable, SchemaScriptSqlTable} \subseteq tables
  /\ \A app \in Apps : \A f \in FileNames :
       Len(ScriptHistory(schema_version, app, f)) >= Cardinality(ShortcutInserts(app, f))

\* Both invocations were first runs, both found no record in saveSchemaVer
\* and both inserted: two History Records of the same (app, script).
C24_Witness ==
  \E app \in Apps : \E f \in FileNames :
    /\ ShortcutInserts(app, f) = Procs
    /\ \A p \in Procs : proc[p].firstRun
    /\ Len(ScriptHistory(schema_version, app, f)) = 2

(***************************************************************************)
(* Two applications migrate their schemas in one database.                 *)
(***************************************************************************)
AllApps == Apps \cup {OtherApp}

MigrateSchemaApps(p) ==
  \/ \E app \in AllApps, sv \in StartingVersions : Start(p, app, sv)
  \/ Prepare(p)
  \/ Discover(p)
  \/ Loop(p)
  \/ Stmt(p)
  \/ ExecOk(p)
  \/ ExecFail(p)
  \/ SaveSelect(p)
  \/ SaveWrite(p)

NextApps ==
  \/ MigrateSchemaApps("p1")
  \/ \E app \in AllApps : Resolve(app)
  \/ \E f \in FileNames : AddScript(f)

SpecApps == InitConfig /\ [][NextApps]_vars

\* The invocation of p has left the records of the other apps as they were.
OthersUntouched(pr) ==
  \A b \in AllApps \ {pr.app} :
    /\ AppRecords(schema_version, b) = AppRecords(pr.sv0, b)
    /\ AppRecords(schema_script_sql, b) = AppRecords(pr.ss0, b)

\* What the invocation of p decided is what the records of its own app make
\* it decide: whether it is turned away, its baseline, and the statements it
\* runs of the script at hand.
DecidedOnOwnRecords(pr) ==
  LET ownV == AppRecords(pr.sv0, pr.app)
      ownS == AppRecords(pr.ss0, pr.app)
      has  == HasRecord(ownV, pr.app)
  IN  /\ pr.pc \notin {"idle", "create"} =>
           (pr.ret.kind = "previous_failed" <=> (~pr.firstRun /\ LatestFailed(ownV, pr.app)))
      /\ BaselineChosen(pr) =>
           pr.last = IF pr.firstRun \/ ~has
                     THEN pr.sv
                     ELSE ResolveLast(pr.sv, TRUE, LatestRecord(ownV, pr.app).script)
      /\ pr.pc \in {"stmt", "exec"} =>
           pr.segments = Selected(pr.schemaFiles[pr.i], pr.i = Len(pr.schemaFiles),
                                  QueryExecuted(ownS, pr.app, pr.fname), pr.last).sqls

OnSaveError(pr) ==
  IF pr.save.then = "init"
  THEN [pr EXCEPT !.pc = "done", !.fault = "save", !.ret = NilRet]
  ELSE IF pr.save.then = "fail"
  THEN [pr EXCEPT !.pc = "done", !.fault = "save"]
  ELSE [pr EXCEPT !.pc = "loop", !.fault = "save", !.i = pr.i + 1]

\* The SELECT, the UPDATE or the INSERT of saveSchemaVer fails.
SaveFails(p) ==
  /\ proc[p].pc \in {"save_select", "save_write"}
  /\ Set(p, OnSaveError(proc[p]))
  /\ UNCHANGED <<tables, schema_version, schema_script_sql, files, excluded,
                 execLog, runs, fsChanges, failPending>>

NextSave == MigrateSchema("p1") \/ SaveFails("p1")

SpecSave == InitConfig /\ [][NextSave]_vars

\* C26. Success implies durable bookkeeping: when MigrateSchema returns nil,
\* every write of a History Record it attempted has succeeded, the record of
\* the first-run shortcut and the success record of each script it ran; an
\* invocation in which such a write failed returns an error.
C26_SuccessImpliesSaved ==
  \A p \in Procs :
    (proc[p].pc = "done" /\ proc[p].fault = "save") => proc[p].ret.kind \notin {"nil", "none"}

\* As the invocation of p starts, v0.0.2.sql holds the statements A, B, C,
\* an earlier invocation ran A and failed at B, and the History Record of
\* the script, the latest of the app, has been set to success = true.
FailedAtBResolved(pr) ==
  /\ pr.pc # "idle"
  /\ files[V002] # NoFile
  /\ SplitSQLs(files[V002]) = <<"A", "B", "C">>
  /\ Len(EarlierEntries(pr, V002)) = 2
  /\ EarlierEntries(pr, V002)[1].sql = "A" /\ EarlierEntries(pr, V002)[1].ok
  /\ EarlierEntries(pr, V002)[2].sql = "B" /\ ~EarlierEntries(pr, V002)[2].ok
  /\ HasRecord(pr.sv0, pr.app)
  /\ LatestRecord(pr.sv0, pr.app).script = V002
  /\ LatestRecord(pr.sv0, pr.app).success

\* The scripts of a later version than v0.0.2.sql among the candidates.
LaterCandidates ==
  {g \in Present :
     /\ VerAfter(g, V002)
     /\ ~isExcluded(g, excluded)
     /\ SplitSQLs(files[g]) # <<>>}

\* The invocation of p runs C, and neither A nor B, before any other script.
ResumesAtC(pr) ==
  /\ RunTraceOf(pr.run, V002) \in {<<>>, << <<V002, "C">> >>}
  /\ RunTrace(pr.run) # <<>> => RunTrace(pr.run)[1] = <<V002, "C">>
  /\ pr.pc = "done" => RunTrace(pr.run) # <<>>

\* C27 as claimed: after a script with the statements A, B, C failed at B
\* and its History Record was set to success = true by hand, the next
\* invocation executes C, and neither A nor B, before any script of a later
\* version, whether or not such scripts are in the directory.
C27_Resumption ==
  \A p \in Procs : FailedAtBResolved(proc[p]) => ResumesAtC(proc[p])

\* C27 as amended: it does so when no script of a later version is among its
\* candidates; when one is, it executes no statement of the script, C
\* included, and goes on with the later scripts.
C27_ResumptionOfNewestScript ==
  \A p \in Procs :
    FailedAtBResolved(proc[p]) =>
      IF LaterCandidates = {}
      THEN ResumesAtC(proc[p])
      ELSE /\ RunTraceOf(proc[p].run, V002) = <<>>
           /\ proc[p].pc = "done" => RunTrace(proc[p].run) # <<>>

\* The invocation after the manual resolution has run C alone and returned
\* nil.
C27_Witness ==
  \E p \in Procs :
    /\ FailedAtBResolved(proc[p])
    /\ LaterCandidates = {}
    /\ proc[p].pc = "done"
    /\ proc[p].ret = NilRet
    /\ RunTrace(proc[p].run) = << <<V002, "C">> >>

====
